---- MODULE Spec2Model ----
(***************************************************************************)
(* Shamir secret sharing over Z_p, as implemented by class SSS of          *)
(* src/sss.py, together with the module-level name `sss` that two of its   *)
(* methods read.                                                           *)
(*                                                                         *)
(* Python integers are unbounded; every quantity of the model stays far    *)
(* below 2^31.  Python's % and // with a positive right operand are the    *)
(* floor operations, which is what % and \div are here.                    *)
(***************************************************************************)
EXTENDS Integers, Sequences, FiniteSets

VARIABLES
    self,   \* the scheme object the methods are called on: k, p, w, t, x, a, y
    sss,    \* what the module-level name sss is bound to
    pc,     \* where the caller is: constructed, inside choose_x, chosen, shared, called
    loc,    \* choose_x's local variables x and new_x
    call    \* the last call that returned: its name, arguments and result

vars == <<self, sss, pc, loc, call>>

----------------------------------------------------------------------------
(* Bounds of the model *)

\* The largest modulus a scheme of Init is built with.
MaxP == 5
\* The largest number of shares w a scheme of Init is built with.
MaxW == 3
\* SpecVerify: the points of the p = 17 scheme are drawn from 1..MaxVerifyPoint.
MaxVerifyPoint == 5
\* SpecVerify: the coefficients of the p = 17 scheme are drawn from 0..MaxVerifyCoef.
MaxVerifyCoef == 1

----------------------------------------------------------------------------
(* Values a call hands back *)

\* A returned integer.
Value(v) == [kind |-> "value", val |-> v]
\* Python's None (a function that falls off its end after print).
None == [kind |-> "None", val |-> 0]
\* Python's True and False.
Bool(b) == [kind |-> "bool", val |-> IF b THEN 1 ELSE 0]
\* An exception reaching the caller.
Raised(e) == [kind |-> e, val |-> 0]

\* An attribute that has not been assigned yet.
Unset == << >>

Range(s) == {s[i] : i \in 1..Len(s)}
Abs(n) == IF n < 0 THEN 0 - n ELSE n

----------------------------------------------------------------------------
(* External collaborators *)

\* sympy.isprime
IsPrime(n) == n > 1 /\ \A d \in 2..(n - 1) : n % d # 0

\* secrets.randbelow(n): any integer of [0, n)
RandBelow(n) == 0..(n - 1)

\* numpy.polyval on dtype=object: Horner's rule in exact integers, highest
\* degree first, no reduction.
RECURSIVE PolyValFrom(_, _, _, _)
PolyValFrom(poly, ecs, i, acc) ==
    IF i > Len(poly) THEN acc
    ELSE PolyValFrom(poly, ecs, i + 1, acc * ecs + poly[i])

\* Horner's rule started one coefficient late.
PolyValSkipFirst(poly, ecs) == PolyValFrom(poly, ecs, 2, 0)

PolyVal(poly, ecs) == PolyValFrom(poly, ecs, 1, 0)

\* itertools.combinations(range(1, n+1), t): the increasing index tuples of
\* length t, in lexicographic order.
RECURSIVE CombinationsFrom(_, _, _)
CombinationsFrom(lo, n, t) ==
    IF t = 0 THEN << << >> >>
    ELSE IF lo > n THEN << >>
    ELSE LET with == CombinationsFrom(lo + 1, n, t - 1)
             without == CombinationsFrom(lo + 1, n, t)
         IN  [i \in 1..Len(with) |-> <<lo>> \o with[i]] \o without

Combinations(n, t) == CombinationsFrom(1, n, t)

\* The elements of seq at the positions idx.
Pick(seq, idx) == [i \in 1..Len(idx) |-> seq[idx[i]]]

----------------------------------------------------------------------------
(* Share generation *)

\* The loop condition without its membership test.
RefusedZeroOnly(new_x, x) == new_x = 0

\* The loop condition of choose_x: the draw is refused.
Refused(new_x, x) == new_x = 0 \/ new_x \in Range(x)

\* One share value: the polynomial a + [k] at x[idx], reduced once at the end.
ShareValue(k, p, a, ecs) == PolyVal(a \o <<k>>, ecs) % p

\* generate_shares' list y, for the coefficients a that choose_a drew.
SharesOf(o, a) == [idx \in 1..o.w |-> ShareValue(o.k, o.p, a, o.x[idx])]

\* The lists of n draws of randbelow(p).
Draws(n, p) == [1..n -> RandBelow(p)]

----------------------------------------------------------------------------
(* Key reconstruction *)

RECURSIVE egcd(_, _)
egcd(number1, number2) ==
    IF number1 = 0 THEN <<number2, 0, 1>>
    ELSE LET r == egcd(number2 % number1, number1)
             g == r[1]
             y == r[2]
             x == r[3]
         IN  <<g, x - (number2 \div number1) * y, y>>

\* The value modinv hands calculate_b when it raises instead of returning.
NoInverse == -1

modinv(number, m) ==
    LET r == egcd(number, m)
    IN  IF r[1] # 1 THEN NoInverse ELSE r[2] % m

\* The inverse of |element - x|, whatever the sign of the difference.
InverseUnsigned(diff, p) == modinv(Abs(diff), p)

\* The inverse calculate_b and calculate_b_full take of element - x.
InverseOfDifference(diff, p) ==
    IF diff >= 0 THEN modinv(diff, p)
    ELSE modinv(p - Abs(diff), p)

\* calculate_b's loop from position i on; NoInverse once modinv has raised.
RECURSIVE calculate_b_from(_, _, _, _, _)
calculate_b_from(p, x, x_values, i, acc) ==
    IF i > Len(x_values) THEN acc % p
    ELSE LET element == x_values[i]
         IN  IF element # x
             THEN LET inverse == InverseOfDifference(element - x, p)
                  IN  IF inverse = NoInverse THEN NoInverse
                      ELSE calculate_b_from(p, x, x_values, i + 1,
                                            (acc * element) * inverse)
             ELSE calculate_b_from(p, x, x_values, i + 1, acc)

calculate_b(p, x, x_values) == calculate_b_from(p, x, x_values, 1, 1)

\* calculate_b_full's loop, likewise.
RECURSIVE calculate_b_full_from(_, _, _, _, _, _)
calculate_b_full_from(p, root, x, x_values, i, acc) ==
    IF i > Len(x_values) THEN acc % p
    ELSE LET element == x_values[i]
         IN  IF element # x
             THEN LET inverse == InverseOfDifference(element - x, p)
                  IN  IF inverse = NoInverse THEN NoInverse
                      ELSE calculate_b_full_from(p, root, x, x_values, i + 1,
                                                 (acc * (root - element)) * inverse)
             ELSE calculate_b_full_from(p, root, x, x_values, i + 1, acc)

calculate_b_full(p, root, x, x_values) ==
    calculate_b_full_from(p, root, x, x_values, 1, 1)

\* reconstruct_key's loop over the indices of y: the sum so far, or NoInverse.
RECURSIVE reconstruct_sum(_, _, _, _, _)
reconstruct_sum(p, x, y, index, k) ==
    IF index > Len(y) THEN k
    ELSE LET b == calculate_b(p, x[index], x)
         IN  IF b = NoInverse THEN NoInverse
             ELSE reconstruct_sum(p, x, y, index + 1, k + b * y[index])

\* reconstruct_key summing the first t terms only, each b still over all of x.
reconstruct_key_first_terms(o, x, y) ==
    IF Len(y) < o.t THEN None
    ELSE LET k == reconstruct_sum(o.p, x, SubSeq(y, 1, o.t), 1, 0)
         IN  IF k = NoInverse THEN Raised("Exception") ELSE Value(k % o.p)

\* o.reconstruct_key(x, y)
reconstruct_key(o, x, y) ==
    IF Len(y) < o.t THEN None
    ELSE LET k == reconstruct_sum(o.p, x, y, 1, 0)
         IN  IF k = NoInverse THEN Raised("Exception") ELSE Value(k % o.p)

RECURSIVE calculate_y_sum(_, _, _, _, _, _)
calculate_y_sum(p, x, x_values, y_values, index, y) ==
    IF index > Len(y_values) THEN y
    ELSE LET b == calculate_b_full(p, x, x_values[index], x_values)
         IN  IF b = NoInverse THEN NoInverse
             ELSE calculate_y_sum(p, x, x_values, y_values, index + 1,
                                  y + b * y_values[index])

\* o.calculate_y(x, x_values, y_values)
calculate_y(o, x, x_values, y_values) ==
    LET y == calculate_y_sum(o.p, x, x_values, y_values, 1, 0)
    IN  IF y = NoInverse THEN Raised("Exception") ELSE Value(y % o.p)

----------------------------------------------------------------------------
(* Share verification *)

\* The scheme object the name sss denotes while a method of self runs.
Global == IF sss.is_self THEN self ELSE sss

\* comb_x and comb_y of validate_shares and find_defective_share, as index tuples.
CombIdx(o, x_values) == Combinations(Len(x_values), o.t)

\* sss.reconstruct_key(comb_x[index], comb_y[index])
KeyOf(g, x_values, y_values, idx) ==
    reconstruct_key(g, Pick(x_values, idx), Pick(y_values, idx))

\* o.validate_shares(x_values, y_values), the name sss denoting g.
validate_shares(o, g, x_values, y_values) ==
    LET comb == CombIdx(o, x_values)
        keys == [i \in 1..Len(comb) |-> KeyOf(g, x_values, y_values, comb[i])]
    IN  IF Len(comb) = 0 THEN Raised("IndexError")
        ELSE IF \E i \in 1..Len(keys) : keys[i].kind = "Exception"
             THEN Raised("Exception")
        ELSE IF \E i \in 1..Len(keys) : keys[i] # keys[1]
             THEN Bool(FALSE) ELSE Bool(TRUE)

\* The possible results of o.find_defective_share(x_values, y_values), the name
\* sss denoting g.  list(result)[0] of a set with several elements is whichever
\* the set's layout puts first: any of them.
find_defective_share(o, g, x_values, y_values) ==
    LET comb == CombIdx(o, x_values)
        keys == [i \in 1..Len(comb) |-> KeyOf(g, x_values, y_values, comb[i])]
        count == [i \in 1..Len(comb) |->
                    Cardinality({j \in 1..Len(comb) : keys[j] = keys[i]})]
        \* sorted(..., reverse=True) is stable: the first of the largest counts
        first == CHOOSE i \in 1..Len(comb) :
                    /\ \A j \in 1..Len(comb) : count[j] <= count[i]
                    /\ \A j \in 1..(i - 1) : count[j] < count[i]
        likely_key == keys[first]
        wrong == {i \in 1..Len(comb) : keys[i] # likely_key}
        result == {e \in Range(x_values) :
                     \A i \in wrong : e \in Range(Pick(x_values, comb[i]))}
    IN  IF \E i \in 1..Len(keys) : keys[i].kind = "Exception"
        THEN {Raised("Exception")}
        ELSE IF Len(comb) = 0 \/ wrong = {} \/ result = {}
             THEN {Raised("IndexError")}
             ELSE {Value(e) : e \in result}

----------------------------------------------------------------------------
(* The state machine *)

NoCall == [op |-> "none", root |-> 0, xs |-> << >>, ys |-> << >>,
           ret |-> None, lst |-> << >>]

\* SSS(k, p, w, t) with p prime: the object __init__ leaves.
NewScheme(k, p, w, t) ==
    [k |-> k, p |-> p, w |-> w, t |-> t, x |-> Unset, a |-> Unset, y |-> Unset]

\* The schemes of Init: 1 < t <= w < p, p prime, k in [0, p).
Schemes ==
    {NewScheme(k, p, w, t) : k \in 0..(MaxP - 1), p \in 2..MaxP,
                             w \in 2..MaxW, t \in 2..MaxW}

ValidScheme(o) == IsPrime(o.p) /\ o.k < o.p /\ 1 < o.t /\ o.t <= o.w /\ o.w < o.p

\* sss = SSS(...): the name sss denotes the object the methods are called on.
SelfBound == [is_self |-> TRUE]

Init ==
    /\ self \in {o \in Schemes : ValidScheme(o)}
    /\ sss = SelfBound
    /\ pc = "constructed"
    /\ loc = [x |-> << >>, new_x |-> 0]
    /\ call = NoCall

\* choose_x, line 39 and the head of the for loop.
ChooseXBegin ==
    /\ pc = "constructed"
    /\ loc' = [x |-> << >>, new_x |-> 0]
    /\ pc' = IF self.w > 0 THEN "cx_draw" ELSE "cx_return"
    /\ UNCHANGED <<self, sss, call>>

\* line 41
ChooseXDraw ==
    /\ pc = "cx_draw"
    /\ \E r \in RandBelow(self.p) : loc' = [loc EXCEPT !.new_x = r]
    /\ pc' = "cx_while"
    /\ UNCHANGED <<self, sss, call>>

\* lines 42-43
ChooseXRedraw ==
    /\ pc = "cx_while"
    /\ Refused(loc.new_x, loc.x)
    /\ \E r \in RandBelow(self.p) : loc' = [loc EXCEPT !.new_x = r]
    /\ UNCHANGED <<self, sss, pc, call>>

\* line 44 and the next turn of the for loop
ChooseXAppend ==
    /\ pc = "cx_while"
    /\ ~Refused(loc.new_x, loc.x)
    /\ loc' = [loc EXCEPT !.x = Append(loc.x, loc.new_x)]
    /\ pc' = IF Len(loc.x) + 1 < self.w THEN "cx_draw" ELSE "cx_return"
    /\ UNCHANGED <<self, sss, call>>

\* lines 45-46
ChooseXReturn ==
    /\ pc = "cx_return"
    /\ self' = [self EXCEPT !.x = loc.x]
    /\ call' = [NoCall EXCEPT !.op = "choose_x", !.lst = loc.x]
    /\ pc' = "chosen"
    /\ UNCHANGED <<sss, loc>>

\* generate_shares, choose_a included
GenerateShares ==
    /\ pc \in {"chosen", "shared"}
    /\ \E a \in Draws(self.t - 1, self.p) :
          /\ self' = [self EXCEPT !.a = a, !.y = SharesOf(self, a)]
          /\ call' = [NoCall EXCEPT !.op = "generate_shares",
                                    !.lst = SharesOf(self, a)]
    /\ pc' = "shared"
    /\ UNCHANGED <<sss, loc>>

\* The increasing index tuples over 1..n, of every length.
SubSeqs(n) == UNION {Range(Combinations(n, len)) : len \in 0..n}

\* ys, or ys with its last value replaced by another value of [0, p).
LastReplaced(ys, p) ==
    {ys} \cup (IF Len(ys) = 0 THEN {}
               ELSE {[ys EXCEPT ![Len(ys)] = v] : v \in 0..(p - 1)})

\* The caller hands reconstruct_key some of the shares, the last one possibly
\* with a wrong value.
ReconstructKey ==
    /\ pc = "shared"
    /\ \E idx \in SubSeqs(self.w) :
          \E ys \in LastReplaced(Pick(self.y, idx), self.p) :
             call' = [NoCall EXCEPT !.op = "reconstruct_key",
                                    !.xs = Pick(self.x, idx), !.ys = ys,
                                    !.ret = reconstruct_key(self, Pick(self.x, idx), ys)]
    /\ pc' = "called"
    /\ UNCHANGED <<self, sss, loc>>

Next ==
    \/ ChooseXBegin
    \/ ChooseXDraw
    \/ ChooseXRedraw
    \/ ChooseXAppend
    \/ ChooseXReturn
    \/ GenerateShares
    \/ ReconstructKey

Spec == Init /\ [][Next]_vars

----------------------------------------------------------------------------
(* Re-sharing: the same caller, who may also ask calculate_y *)

\* The caller hands calculate_y a point and some of the shares.
CalculateY ==
    /\ pc = "shared"
    /\ \E root \in 0..(self.p - 1), idx \in SubSeqs(self.w) :
          call' = [NoCall EXCEPT !.op = "calculate_y", !.root = root,
                                 !.xs = Pick(self.x, idx), !.ys = Pick(self.y, idx),
                                 !.ret = calculate_y(self, root, Pick(self.x, idx),
                                                     Pick(self.y, idx))]
    /\ pc' = "called"
    /\ UNCHANGED <<self, sss, loc>>

NextReshare == Next \/ CalculateY

SpecReshare == Init /\ [][NextReshare]_vars

----------------------------------------------------------------------------
(* Share verification of the scheme SSS(13, 17, 5, 3) *)

\* The scheme of the first driver block, after choose_x and generate_shares.
VerifyScheme(x, a) ==
    LET o == [NewScheme(13, 17, 5, 3) EXCEPT !.x = x]
    IN  [o EXCEPT !.a = a, !.y = SharesOf(o, a)]

\* Lists choose_x can return: pairwise distinct, non-zero.
PointLists(n, hi) ==
    {x \in [1..n -> 1..hi] : \A i, j \in 1..n : i # j => x[i] # x[j]}

\* Another scheme object bound to the name sss: the driver's second and third.
OtherSchemes ==
    {[is_self |-> FALSE, k |-> 1234, p |-> 1613, w |-> 6, t |-> 3],
     [is_self |-> FALSE, k |-> 31318, p |-> 31847, w |-> 10, t |-> 5]}

InitVerify ==
    /\ \E x \in PointLists(5, MaxVerifyPoint), a \in [1..2 -> 0..MaxVerifyCoef] :
          self = VerifyScheme(x, a)
    /\ sss \in {SelfBound} \cup OtherSchemes
    /\ pc = "shared"
    /\ loc = [x |-> self.x, new_x |-> self.x[Len(self.x)]]
    /\ call = NoCall

\* ys, or ys with one value replaced by another value of [0, p).
OneReplaced(ys, p) ==
    {ys} \cup {[ys EXCEPT ![i] = v] : i \in 1..Len(ys), v \in 0..(p - 1)}

\* The caller hands the verifier the first n >= t shares, at most one of them
\* with a wrong value.
ValidateShares ==
    /\ pc = "shared"
    /\ \E n \in self.t..self.w :
          \E ys \in OneReplaced(SubSeq(self.y, 1, n), self.p) :
             call' = [NoCall EXCEPT !.op = "validate_shares",
                                    !.xs = SubSeq(self.x, 1, n), !.ys = ys,
                                    !.ret = validate_shares(self, Global,
                                                            SubSeq(self.x, 1, n), ys)]
    /\ pc' = "called"
    /\ UNCHANGED <<self, sss, loc>>

FindDefectiveShare ==
    /\ pc = "shared"
    /\ \E n \in self.t..self.w :
          \E ys \in OneReplaced(SubSeq(self.y, 1, n), self.p) :
             \E r \in find_defective_share(self, Global, SubSeq(self.x, 1, n), ys) :
                call' = [NoCall EXCEPT !.op = "find_defective_share",
                                       !.xs = SubSeq(self.x, 1, n), !.ys = ys,
                                       !.ret = r]
    /\ pc' = "called"
    /\ UNCHANGED <<self, sss, loc>>

NextVerify == ValidateShares \/ FindDefectiveShare

SpecVerify == InitVerify /\ [][NextVerify]_vars

----------------------------------------------------------------------------
(* Properties *)

\* The last call was handed shares that generate_shares produced, unaltered.
Genuine ==
    /\ Len(call.xs) = Len(call.ys)
    /\ \A i \in 1..Len(call.xs) :
          \E j \in 1..Len(self.x) : self.x[j] = call.xs[i] /\ self.y[j] = call.ys[i]

\* The coefficient lists choose_a can draw for scheme o.
Coefficients(o) == [1..(o.t - 1) -> 0..(o.p - 1)]

\* C1. Round trip: reconstruct_key on any t of the w shares generate_shares
\* produced, points and values aligned, returns the secret k.
RoundTrip ==
    (call.op = "reconstruct_key" /\ Len(call.ys) = self.t /\ Genuine)
        => call.ret = Value(self.k)

\* A reconstruction from exactly t = 3 genuine shares of a non-zero secret.
RoundTripWitness ==
    /\ call.op = "reconstruct_key"
    /\ Genuine
    /\ Len(call.ys) = self.t
    /\ self.t = 3
    /\ self.k # 0
    /\ call.ret = Value(self.k)

\* The lists of t-1 values of [0, p).
ValueLists(o) == [1..(o.t - 1) -> 0..(o.p - 1)]

\* C5. Sub-threshold secrecy, existence form: whatever t-1 of the points and
\* whatever secret k2, the lists of values that generate_shares with secret k2
\* produces at these points, over all coefficients, are all lists of t-1 values
\* of [0, p); and reconstruct_key handed fewer than t shares returns no key.
SubThresholdSecrecy ==
    /\ pc = "chosen" =>
          \A idx \in Range(Combinations(self.w, self.t - 1)) :
             \A k2 \in 0..(self.p - 1) :
                {Pick(SharesOf([self EXCEPT !.k = k2], a), idx) :
                    a \in Coefficients(self)} = ValueLists(self)
    /\ (call.op = "reconstruct_key" /\ Len(call.ys) < self.t)
          => call.ret = None

\* reconstruct_key refused t-1 genuine shares, and another secret with other
\* coefficients produces the same t-1 shares.
SubThresholdWitness ==
    /\ call.op = "reconstruct_key"
    /\ Genuine
    /\ Len(call.ys) = self.t - 1
    /\ call.ret = None
    /\ \E k2 \in 0..(self.p - 1) :
          /\ k2 # self.k
          /\ \E a \in Coefficients(self) :
                \A j \in 1..self.w :
                   self.x[j] \in Range(call.xs)
                      => SharesOf([self EXCEPT !.k = k2], a)[j] = self.y[j]

\* A list of pairwise distinct values of [1, p-1].
DistinctNonZero(x) ==
    /\ \A i \in 1..Len(x) : x[i] \in 1..(self.p - 1)
    /\ \A i, j \in 1..Len(x) : i # j => x[i] # x[j]

\* C8. choose_x returns w pairwise distinct values of [1, p-1], and the list it
\* builds never holds 0 or a duplicate, whatever randbelow returns.
ChooseXDistinct ==
    /\ DistinctNonZero(loc.x)
    /\ Len(loc.x) <= self.w
    /\ call.op = "choose_x" =>
          /\ call.lst = self.x
          /\ Len(call.lst) = self.w
          /\ DistinctNonZero(call.lst)
    /\ pc \in {"chosen", "shared", "called"} =>
          Len(self.x) = self.w /\ DistinctNonZero(self.x)

\* choose_x has returned three points.
ChooseXWitness ==
    /\ call.op = "choose_x"
    /\ pc = "chosen"
    /\ Len(call.lst) = 3
    /\ self.w = 3

\* C9, as stated: with more than t shares, reconstruct_key's result is that of
\* the first t shares, whatever the later shares are.
FirstSharesOnly ==
    (call.op = "reconstruct_key" /\ Len(call.ys) > self.t)
        => call.ret = reconstruct_key(self, SubSeq(call.xs, 1, self.t),
                                      SubSeq(call.ys, 1, self.t))

\* C9, amended: with more than t shares, all of them genuine, reconstruct_key's
\* result is that of the first t shares.
FirstSharesWhenGenuine ==
    (call.op = "reconstruct_key" /\ Len(call.ys) > self.t /\ Genuine)
        => call.ret = reconstruct_key(self, SubSeq(call.xs, 1, self.t),
                                      SubSeq(call.ys, 1, self.t))

\* reconstruct_key was handed t + 1 genuine shares and returned a key.
FirstSharesWitness ==
    /\ call.op = "reconstruct_key"
    /\ Genuine
    /\ Len(call.ys) = self.t + 1
    /\ call.ret.kind = "value"

\* C10. After generate_shares has returned, the scheme object holds p, w, t as
\* constructed and does not hold the coefficients.
CoefficientsNotRetained ==
    call.op = "generate_shares" =>
        /\ ValidScheme(self)
        /\ self.a = Unset

\* C6. reconstruct_key and calculate_y, handed fewer than t shares, return no
\* field value.
InsufficientSharesRejected ==
    (call.op \in {"reconstruct_key", "calculate_y"} /\ Len(call.ys) < self.t)
        => call.ret.kind # "value"

\* C2. Re-share consistency: on t genuine shares calculate_y at 0 is
\* reconstruct_key, and the share it derives at a fresh point reconstructs k
\* together with any t-1 of the t shares.
ReshareConsistent ==
    (call.op = "calculate_y" /\ Len(call.ys) = self.t /\ Genuine) =>
        /\ call.root = 0 => call.ret = reconstruct_key(self, call.xs, call.ys)
        /\ (call.root # 0 /\ call.root \notin Range(self.x)) =>
              /\ call.ret.kind = "value"
              /\ \A idx \in Range(Combinations(self.t, self.t - 1)) :
                    reconstruct_key(self, <<call.root>> \o Pick(call.xs, idx),
                                    <<call.ret.val>> \o Pick(call.ys, idx))
                       = Value(self.k)

\* The positions of the last call's values that are not the generated ones.
Altered == {i \in 1..Len(call.ys) : call.ys[i] # self.y[i]}

\* C3. p = 17, secret 13, t = 3, w = 5, one of the five values replaced by a
\* wrong one: validate_shares returns False and find_defective_share returns
\* the point of the altered share.
DefectiveShareFound ==
    (Len(call.ys) = self.w /\ Cardinality(Altered) = 1) =>
        /\ call.op = "validate_shares" => call.ret = Bool(FALSE)
        /\ call.op = "find_defective_share" =>
              \E i \in Altered : call.ret = Value(self.x[i])

\* The key of each size-t subset of the last call's shares, reconstructed with
\* the modulus and threshold of the scheme the method was called on.
SubsetKeys ==
    [idx \in Range(Combinations(Len(call.xs), self.t)) |->
        reconstruct_key(self, Pick(call.xs, idx), Pick(call.ys, idx))]

\* C4. S.validate_shares(x_values, y_values) returns True exactly when all
\* size-t subsets, reconstructed with S's modulus and threshold, give one
\* secret, whatever scheme object the name sss denotes.
ValidateIffConsistent ==
    call.op = "validate_shares" =>
        (call.ret = Bool(TRUE)
            <=> \A i, j \in DOMAIN SubsetKeys : SubsetKeys[i] = SubsetKeys[j])

Votes(key) == Cardinality({idx \in DOMAIN SubsetKeys : SubsetKeys[idx] = key})

\* The keys no other key outvotes.
Majorities ==
    {SubsetKeys[i] : i \in {i \in DOMAIN SubsetKeys :
                              \A j \in DOMAIN SubsetKeys :
                                 Votes(SubsetKeys[j]) <= Votes(SubsetKeys[i])}}

\* The points common to every subset whose key is not m.
CommonPoints(m) ==
    {e \in Range(call.xs) :
        \A idx \in DOMAIN SubsetKeys :
           SubsetKeys[idx] # m => e \in Range(Pick(call.xs, idx))}

\* No single offending point can be isolated: the vote is tied, or no subset
\* disagrees with the majority, or the disagreeing subsets have no common
\* point or several.
Ambiguous ==
    \/ Cardinality(Majorities) > 1
    \/ \E m \in Majorities :
          \/ \A idx \in DOMAIN SubsetKeys : SubsetKeys[idx] = m
          \/ Cardinality(CommonPoints(m)) # 1

\* C7. When no single offending point can be isolated, find_defective_share
\* returns no point.  (Stated for the name sss denoting the scheme itself, where
\* the keys the method computes are SubsetKeys.)
AmbiguityFlagged ==
    (call.op = "find_defective_share" /\ sss.is_self /\ Ambiguous)
        => call.ret.kind # "value"

====
